---- MODULE Spec2Model ----
(***************************************************************************)
(* Step progression of rapidsms-script: the Script / ScriptStep /          *)
(* ScriptProgress models of script/models.py and the timing predicates of  *)
(* ScriptProgress, plus the periodic evaluation (tick) and reply handling  *)
(* of the progress engine that calls them.                                 *)
(*                                                                         *)
(* Times are whole seconds.  A nullable column is a sequence of length 0   *)
(* (Python None) or 1.  A call returns [exc, val]: exc is "" on a normal   *)
(* return and the exception's name when the call raises.  sent and faults  *)
(* are the send instructions and the per-record faults of the last call.   *)
(***************************************************************************)
EXTENDS Integers, Sequences, FiniteSets, TLC

VARIABLES script, progress, now, sent, faults, ret

vars == <<script, progress, now, sent, faults, ret>>

\* ------------------------------------------------------------- bounds
\* The clock runs from 0 to MaxNow seconds.
MaxNow == 62
\* The largest stored ScriptProgress.num_tries the predicates are called on.
MaxAttempt == 4

\* ------------------------------------------------------ Python values
None == << >>
Some(v) == <<v>>
Val(o) == o[1]

\* Python's truth value of a nullable integer: None and 0 are false.
Truthy(o) == o # None /\ Val(o) # 0

PyTrue == "True"
PyFalse == "False"
PyNone == "None"

PyOf(b) == IF b THEN PyTrue ELSE PyFalse

\* Python's truth value of what a predicate returned.
PyBool(v) == v = PyTrue

Return(v) == [exc |-> "", val |-> v]
Raise(e) == [exc |-> e, val |-> None]

\* Python 2 orders None before every integer.
PyLess(a, b) ==
    IF a = None THEN b # None
    ELSE IF b = None THEN FALSE
    ELSE Val(a) < Val(b)

\* ------------------------------------------------------- ScriptStep
LENIENT == "l"
WAIT_MOVEON == "w"
WAIT_GIVEUP == "g"
RESEND_MOVEON == "R"
RESEND_GIVEUP == "r"

ScriptStep(order, rule, start_offset, retry_offset, giveup_offset, num_tries) ==
    [order |-> order, rule |-> rule, start_offset |-> start_offset,
     retry_offset |-> retry_offset, giveup_offset |-> giveup_offset,
     num_tries |-> num_tries]

\* The scripts of the database: each is the set of its steps (script.steps).
ScriptWait ==
    { ScriptStep(1, WAIT_MOVEON, None, None, None, None),
      ScriptStep(3, WAIT_MOVEON, Some(60), None, None, None),
      ScriptStep(4, LENIENT, None, None, None, None) }

ScriptResend ==
    { ScriptStep(2, RESEND_MOVEON, None, Some(30), None, Some(3)),
      ScriptStep(5, RESEND_GIVEUP, None, None, None, Some(2)),
      ScriptStep(7, LENIENT, Some(10), None, None, None) }

ScriptGiveup ==
    { ScriptStep(1, WAIT_GIVEUP, None, None, Some(20), None),
      ScriptStep(2, LENIENT, None, None, None, None) }

ScriptUntried ==
    { ScriptStep(1, RESEND_MOVEON, None, Some(0), None, None),
      ScriptStep(2, RESEND_GIVEUP, Some(0), Some(5), Some(0), Some(0)),
      ScriptStep(6, WAIT_MOVEON, Some(60), None, None, None) }

ScriptLenient == { ScriptStep(4, LENIENT, Some(60), Some(30), Some(20), Some(3)) }

ScriptEmpty == {}

Scripts ==
    { ScriptWait, ScriptResend, ScriptGiveup, ScriptUntried, ScriptLenient,
      ScriptEmpty }

\* A step of another script, for a progress record whose step is not one of
\* its own script's.
ForeignStep == ScriptStep(9, WAIT_MOVEON, None, None, None, None)

\* ---------------------------------------------------- ScriptProgress
\* The connections; those with a ScriptProgress row are the parties, and a
\* pass over the rows visits them in this order.
Connections == <<"p1", "p2">>
Parties == DOMAIN progress
PartyList == SelectSeq(Connections, LAMBDA c : c \in Parties)

ScriptProgress(step, status, time, num_tries) ==
    [step |-> step, status |-> status, time |-> time, num_tries |-> num_tries]

\* script.steps.order_by('order')
RECURSIVE order_by(_)
order_by(steps) ==
    IF steps = {} THEN << >>
    ELSE LET s == CHOOSE x \in steps : \A y \in steps : x.order <= y.order
         IN  <<s>> \o order_by(steps \ {s})

\* .values_list('order', flat=True)
values_list(q) == [i \in 1..Len(q) |-> q[i].order]

\* list.index: the first position holding v (positions count from 1 here).
index(l, v) == CHOOSE i \in 1..Len(l) : l[i] = v /\ \A j \in 1..(i - 1) : l[j] # v

\* script.steps.get(order=o)
get(steps, o) ==
    LET found == {s \in steps : s.order = o}
    IN  IF found = {} THEN Raise("DoesNotExist")
        ELSE IF Cardinality(found) > 1 THEN Raise("MultipleObjectsReturned")
        ELSE Return(Some(CHOOSE s \in found : TRUE))

\* get_next_step wrapping round to the first step after the last one.
get_next_step_first(steps, self) ==
    IF self.status = "C" THEN Return(None)
    ELSE IF self.step = None THEN Raise("AttributeError")
    ELSE LET steps_list == values_list(order_by(steps))
             order == Val(self.step).order
         IN  IF \A i \in 1..Len(steps_list) : steps_list[i] # order
             THEN Raise("ValueError")
             ELSE IF index(steps_list, order) + 1 > Len(steps_list)
             THEN get(steps, steps_list[1])
             ELSE get(steps, steps_list[index(steps_list, order) + 1])

\* get_next_step without its test of the status.
get_next_step_any(steps, self) ==
    IF self.step = None THEN Raise("AttributeError")
    ELSE LET steps_list == values_list(order_by(steps))
             order == Val(self.step).order
         IN  IF \A i \in 1..Len(steps_list) : steps_list[i] # order
             THEN Raise("ValueError")
             ELSE IF index(steps_list, order) + 1 > Len(steps_list)
             THEN Return(None)
             ELSE get(steps, steps_list[index(steps_list, order) + 1])

\* get_next_step passing over the step after the current one.
get_next_step_skip(steps, self) ==
    IF self.status = "C" THEN Return(None)
    ELSE IF self.step = None THEN Raise("AttributeError")
    ELSE LET steps_list == values_list(order_by(steps))
             order == Val(self.step).order
         IN  IF \A i \in 1..Len(steps_list) : steps_list[i] # order
             THEN Raise("ValueError")
             ELSE IF index(steps_list, order) + 2 > Len(steps_list)
             THEN Return(None)
             ELSE get(steps, steps_list[index(steps_list, order) + 2])

\* The step after the current one in the script's order; None at the last
\* step and for a Complete record.
get_next_step(steps, self) ==
    IF self.status = "C" THEN Return(None)
    ELSE IF self.step = None THEN Raise("AttributeError")
    ELSE LET steps_list == values_list(order_by(steps))
             order == Val(self.step).order
         IN  IF \A i \in 1..Len(steps_list) : steps_list[i] # order
             THEN Raise("ValueError")
             ELSE IF index(steps_list, order) + 1 > Len(steps_list)
             THEN Return(None)
             ELSE get(steps, steps_list[index(steps_list, order) + 1])

\* get_initial_step ordering the steps by '-order'.
get_initial_step_last(steps) ==
    IF steps = {} THEN None ELSE Some(order_by(steps)[Cardinality(steps)])

get_initial_step(steps) ==
    IF steps = {} THEN None ELSE Some(order_by(steps)[1])

get_last_step(steps) ==
    IF steps = {} THEN None ELSE Some(order_by(steps)[Cardinality(steps)])

\* should we retry the current step now?
retry_now(self, clock) ==
    IF self.step = None THEN Raise("AttributeError")
    ELSE IF Truthy(Val(self.step).retry_offset)
    THEN IF self.time + Val(Val(self.step).retry_offset) >= clock
         THEN Return(PyTrue) ELSE Return(PyFalse)
    ELSE Return(PyTrue)

\* should we move on to the next step now?
proceed(steps, self, clock) ==
    LET next_step == get_next_step(steps, self)
    IN  IF next_step.exc # "" THEN next_step
        ELSE IF next_step.val # None /\ Truthy(Val(next_step.val).start_offset)
        THEN IF self.time + Val(Val(next_step.val).start_offset) >= clock
             THEN Return(PyTrue) ELSE Return(PyFalse)
        ELSE Return(PyTrue)

\* should we give up now?
give_up_now(self, clock) ==
    IF self.step = None THEN Raise("AttributeError")
    ELSE IF Truthy(Val(self.step).giveup_offset)
    THEN IF self.time + Val(Val(self.step).giveup_offset) >= clock
         THEN Return(PyTrue) ELSE Return(PyFalse)
    ELSE Return(PyTrue)

\* keep_retrying comparing with <= in place of <.
keep_retrying_inclusive(self) ==
    IF self.step = None THEN Raise("AttributeError")
    ELSE IF Truthy(Val(self.step).num_tries)
            /\ ~PyLess(Val(self.step).num_tries, self.num_tries)
    THEN Return(PyTrue)
    ELSE Return(PyNone)

\* should we keep retrying the current step?
keep_retrying(self) ==
    IF self.step = None THEN Raise("AttributeError")
    ELSE IF Truthy(Val(self.step).num_tries)
            /\ PyLess(self.num_tries, Val(self.step).num_tries)
    THEN Return(PyTrue)
    ELSE Return(PyNone)

\* script_completion: the record is at its script's last step and Complete.
script_completion(steps, self) ==
    IF self.step = None \/ get_last_step(steps) = None THEN Raise("AttributeError")
    ELSE IF Val(self.step).order = Val(get_last_step(steps)).order /\ self.status = "C"
    THEN Return(PyTrue)
    ELSE Return(PyFalse)

\* ------------------------------------------------ calls of the predicates
\* A stored record and a clock reading, and one call of a method on it:
\* ret holds the method's name, the party whose record it was called on, and
\* what the call returned or raised.
MaxStamp == 1

NoCall == [fn |-> "", party |-> "", arg |-> None, res |-> Return(None)]

Call(fn, p, res) == [fn |-> fn, party |-> p, arg |-> None, res |-> res]

StoredSteps(steps) == {None} \cup {Some(s) : s \in steps \cup {ForeignStep}}

StoredTries == {None} \cup {Some(n) : n \in 0..MaxAttempt}

InitPred ==
    /\ script \in Scripts
    /\ now \in 0..MaxNow
    /\ progress \in [{Connections[1]} ->
           { ScriptProgress(st, status, time, tries) :
                 st \in StoredSteps(script), status \in {"P", "C"},
                 time \in {t \in 0..now : t <= MaxStamp}, tries \in StoredTries }]
    /\ sent = << >>
    /\ faults = {}
    /\ ret = NoCall

CallGetNextStep(p) ==
    /\ ret' = Call("get_next_step", p, get_next_step(script, progress[p]))
    /\ UNCHANGED <<script, progress, now, sent, faults>>

CallGetInitialStep(p) ==
    /\ ret' = Call("get_initial_step", p, Return(get_initial_step(script)))
    /\ UNCHANGED <<script, progress, now, sent, faults>>

CallGetLastStep(p) ==
    /\ ret' = Call("get_last_step", p, Return(get_last_step(script)))
    /\ UNCHANGED <<script, progress, now, sent, faults>>

CallRetryNow(p) ==
    /\ ret' = Call("retry_now", p, retry_now(progress[p], now))
    /\ UNCHANGED <<script, progress, now, sent, faults>>

CallProceed(p) ==
    /\ ret' = Call("proceed", p, proceed(script, progress[p], now))
    /\ UNCHANGED <<script, progress, now, sent, faults>>

CallGiveUpNow(p) ==
    /\ ret' = Call("give_up_now", p, give_up_now(progress[p], now))
    /\ UNCHANGED <<script, progress, now, sent, faults>>

CallKeepRetrying(p) ==
    /\ ret' = Call("keep_retrying", p, keep_retrying(progress[p]))
    /\ UNCHANGED <<script, progress, now, sent, faults>>

CallScriptCompletion(p) ==
    /\ ret' = Call("script_completion", p, script_completion(script, progress[p]))
    /\ UNCHANGED <<script, progress, now, sent, faults>>

NextPred ==
    \E p \in Parties :
        \/ CallGetNextStep(p)
        \/ CallGetInitialStep(p)
        \/ CallGetLastStep(p)
        \/ CallRetryNow(p)
        \/ CallProceed(p)
        \/ CallGiveUpNow(p)
        \/ CallKeepRetrying(p)
        \/ CallScriptCompletion(p)

SpecPred == InitPred /\ [][NextPred]_vars

\* ------------------------------------------------- the progress engine
\* One evaluation of a record yields the record as written back and the send
\* instructions (the orders of the steps whose message goes out).
Outcome(rec, out, fault) == [rec |-> rec, out |-> out, fault |-> fault]

Unchanged(self) == Outcome(self, << >>, "")

\* Writing the row back without refreshing its time.
save_stale(self, clock) == self

\* Writing the row back: time is an auto_now column, set to the clock on
\* every save.
save(self, clock) == [self EXCEPT !.time = clock]

\* Enter a step: attemptCount 0, lastTransitionTime stamped, message sent.
Enter(self, step, clock) ==
    Outcome(save([self EXCEPT !.step = Some(step), !.status = "P",
                              !.num_tries = Some(0)], clock),
            <<step.order>>, "")

\* Mark the record Complete where it stands (give-up): no message.
MarkComplete(self, clock) ==
    Outcome(save([self EXCEPT !.status = "C"], clock), << >>, "")

\* Advance to the next step, or Complete at the last step.
Advance(steps, self, clock) ==
    LET next_step == get_next_step(steps, self)
    IN  IF next_step.exc # "" THEN Outcome(self, << >>, "InconsistentState")
        ELSE IF next_step.val = None
        THEN Outcome(save([self EXCEPT !.status = "C", !.num_tries = Some(0)], clock),
                     << >>, "")
        ELSE Enter(self, Val(next_step.val), clock)

\* Resend the current step's message.
Resend(self, clock) ==
    Outcome(save([self EXCEPT !.num_tries = Some(Val(self.num_tries) + 1)], clock),
            <<Val(self.step).order>>, "")

EvaluateWaitMoveon(steps, self, clock) ==
    IF PyBool(proceed(steps, self, clock).val)
    THEN Advance(steps, self, clock)
    ELSE Unchanged(self)

EvaluateWaitGiveup(steps, self, clock) ==
    IF PyBool(give_up_now(self, clock).val)
    THEN MarkComplete(self, clock)
    ELSE Unchanged(self)

\* A LENIENT step timing out like a WAIT_GIVEUP step.
EvaluateLenient_giveup(steps, self, clock) == EvaluateWaitGiveup(steps, self, clock)

EvaluateLenient(steps, self, clock) == Unchanged(self)

EvaluateResendMoveon(steps, self, clock) ==
    IF ~PyBool(keep_retrying(self).val) THEN Advance(steps, self, clock)
    ELSE IF PyBool(retry_now(self, clock).val) THEN Resend(self, clock)
    ELSE Unchanged(self)

EvaluateResendGiveup(steps, self, clock) ==
    IF ~PyBool(keep_retrying(self).val) THEN MarkComplete(self, clock)
    ELSE IF PyBool(retry_now(self, clock).val) THEN Resend(self, clock)
    ELSE Unchanged(self)

\* The transition function, applied to one record at time clock.
Evaluate(steps, self, clock) ==
    IF self.status = "C" THEN Unchanged(self)
    ELSE IF self.step = None
    THEN IF get_initial_step(steps) = None
         THEN MarkComplete(self, clock)
         ELSE Enter(self, Val(get_initial_step(steps)), clock)
    ELSE IF Val(self.step) \notin steps
    THEN Outcome(self, << >>, "InconsistentState")
    ELSE LET rule == Val(self.step).rule
         IN  IF rule = LENIENT THEN EvaluateLenient(steps, self, clock)
             ELSE IF rule = WAIT_MOVEON THEN EvaluateWaitMoveon(steps, self, clock)
             ELSE IF rule = WAIT_GIVEUP THEN EvaluateWaitGiveup(steps, self, clock)
             ELSE IF rule = RESEND_MOVEON THEN EvaluateResendMoveon(steps, self, clock)
             ELSE EvaluateResendGiveup(steps, self, clock)

\* ApplyVerdict taking a verdict for any step as one for the current step.
ApplyVerdict_anystep(steps, self, stepOrder, valid, clock) ==
    IF self.status = "C" \/ self.step = None THEN Outcome(self, << >>, "")
    ELSE IF ~valid THEN Outcome(self, << >>, "")
    ELSE IF Val(self.step).rule \in {LENIENT, RESEND_MOVEON, RESEND_GIVEUP}
    THEN Advance(steps, self, clock)
    ELSE Outcome(self, << >>, "")

\* A reply verdict for the step of order stepOrder, applied to one record.
ApplyVerdict(steps, self, stepOrder, valid, clock) ==
    IF self.status = "C" \/ self.step = None THEN Unchanged(self)
    ELSE IF Val(self.step).order # stepOrder \/ ~valid THEN Unchanged(self)
    ELSE IF Val(self.step).rule \in {LENIENT, RESEND_MOVEON, RESEND_GIVEUP}
    THEN Advance(steps, self, clock)
    ELSE Unchanged(self)

\* One pass over the rows that stops at the first record that faults: the
\* records after it, in the order of Connections, are not evaluated.
EvaluateAll_abort(steps, records, clock) ==
    LET visited == SelectSeq(Connections, LAMBDA c : c \in DOMAIN records)
        faulty(i) == Evaluate(steps, records[visited[i]], clock).fault # ""
        at(p) == CHOOSE i \in 1..Len(visited) : visited[i] = p
    IN  [p \in DOMAIN records |->
            IF \E j \in 1..(at(p) - 1) : faulty(j)
            THEN Outcome(records[p], << >>, "")
            ELSE Evaluate(steps, records[p], clock)]

\* One pass over the rows: every record is evaluated, whatever the others
\* did.
EvaluateAll(steps, records, clock) ==
    [p \in DOMAIN records |-> Evaluate(steps, records[p], clock)]

\* The send instructions of one pass over the parties, in PartyList's order.
RECURSIVE Instructions(_, _)
Instructions(outcome, i) ==
    IF i > Len(PartyList) THEN << >>
    ELSE LET p == PartyList[i]
         IN  [k \in 1..Len(outcome[p].out) |->
                  [party |-> p, order |-> outcome[p].out[k]]]
             \o Instructions(outcome, i + 1)

\* The faults of one pass: which party's record failed, and how.
Faults(outcome) ==
    {[party |-> p, fault |-> outcome[p].fault] :
         p \in {q \in DOMAIN outcome : outcome[q].fault # ""}}

\* A party joins its script: InProgress, no step yet, nothing sent so far.
Init ==
    /\ script \in Scripts
    /\ now = 0
    /\ progress = [p \in {Connections[1]} |-> ScriptProgress(None, "P", 0, None)]
    /\ sent = << >>
    /\ faults = {}
    /\ ret = NoCall

\* The clock moves on by a second or by half a minute; no call is being made
\* at the new instant.
Lapses == {1, 30}

Elapse(d) ==
    /\ now + d <= MaxNow
    /\ now' = now + d
    /\ sent' = << >>
    /\ faults' = {}
    /\ ret' = NoCall
    /\ UNCHANGED <<script, progress>>

\* tick(now): evaluate every record against the clock.
Tick ==
    LET outcome == EvaluateAll(script, progress, now)
    IN  /\ progress' = [p \in Parties |-> outcome[p].rec]
        /\ sent' = Instructions(outcome, 1)
        /\ faults' = Faults(outcome)
        /\ ret' = Call("tick", "", Return(None))
        /\ UNCHANGED <<script, now>>

\* onReply(party, verdict, now)
OnReply(p, stepOrder, valid) ==
    LET outcome == [q \in Parties |->
                        IF q = p
                        THEN ApplyVerdict(script, progress[q], stepOrder, valid, now)
                        ELSE Unchanged(progress[q])]
    IN  /\ progress' = [q \in Parties |-> outcome[q].rec]
        /\ sent' = Instructions(outcome, 1)
        /\ faults' = Faults(outcome)
        /\ ret' = [Call("onReply", p, Return(PyOf(valid))) EXCEPT !.arg = Some(stepOrder)]
        /\ UNCHANGED <<script, now>>

Next ==
    \/ \E d \in Lapses : Elapse(d)
    \/ Tick
    \/ \E p \in Parties, s \in script, valid \in BOOLEAN : OnReply(p, s.order, valid)

Spec == Init /\ [][Next]_vars

\* Two parties of one script with stored records of any kind, one of them
\* possibly at a step that is not the script's; the clock stands at the time
\* the records were written or long after it.
BatchTries == {Some(0), Some(MaxAttempt)}

InitBatch ==
    /\ script \in Scripts
    /\ now \in {0, MaxNow}
    /\ progress \in [{Connections[1], Connections[2]} ->
           { ScriptProgress(st, status, 0, tries) :
                 st \in StoredSteps(script), status \in {"P", "C"},
                 tries \in BatchTries }]
    /\ sent = << >>
    /\ faults = {}
    /\ ret = NoCall

NextBatch ==
    \/ Tick
    \/ \E p \in Parties, s \in script, valid \in BOOLEAN : OnReply(p, s.order, valid)

SpecBatch == InitBatch /\ [][NextBatch]_vars

\* A party that never replies, under the periodic driver: the clock keeps
\* moving (up to the bound) and ticks keep coming.
NextSilent ==
    \/ \E d \in Lapses : Elapse(d)
    \/ Tick

SpecLive ==
    /\ Init
    /\ [][NextSilent]_vars
    /\ WF_vars(Tick)
    /\ WF_vars(\E d \in Lapses : Elapse(d))

\* ------------------------------------------------------------ claims
\* The record ret's call was made on, and its current step.
Called(fn) == ret.fn = fn
Self == progress[ret.party]
Step == Val(Self.step)
AtOwnStep == Self.step # None /\ Step \in script

\* The step with the smallest order strictly greater than the current
\* step's, the first step when there is no current step, None when there is
\* no such step.
SuccessorStep(steps, current) ==
    LET later == IF current = None THEN steps
                 ELSE {s \in steps : s.order > Val(current).order}
    IN  IF later = {} THEN None
        ELSE Some(CHOOSE s \in later : \A t \in later : s.order <= t.order)

\* The step defines numTries and attemptCount >= numTries.
retriesExhausted(self) ==
    /\ Val(self.step).num_tries # None
    /\ ~PyLess(self.num_tries, Val(self.step).num_tries)

\* C1: for an in-progress record at a step of its script, retry_now is true exactly when the
\* step has no retry_offset or now >= time + retry_offset.
C1_RetryDue ==
    (Called("retry_now") /\ Self.status = "P" /\ AtOwnStep) =>
        ret.res = Return(PyOf(Step.retry_offset = None
                              \/ now >= Self.time + Val(Step.retry_offset)))

\* C2: for an in-progress record, proceed is true exactly when there is no
\* next step, or the next step has no start_offset, or
\* now >= time + next step's start_offset.
C2_AdvanceDue ==
    (Called("proceed") /\ Self.status = "P" /\ AtOwnStep) =>
        LET next == SuccessorStep(script, Self.step)
        IN  ret.res = Return(PyOf(next = None
                                  \/ Val(next).start_offset = None
                                  \/ now >= Self.time + Val(Val(next).start_offset)))

\* C3: for an in-progress record at a step of its script, give_up_now is true exactly when the
\* step has no giveup_offset or now >= time + giveup_offset.
C3_GiveupDue ==
    (Called("give_up_now") /\ Self.status = "P" /\ AtOwnStep) =>
        ret.res = Return(PyOf(Step.giveup_offset = None
                              \/ now >= Self.time + Val(Step.giveup_offset)))

\* C4 as stated: keep_retrying is the boolean complement of retriesExhausted
\* for every numTries (defined, absent or zero) and every attemptCount.
C4_Complement ==
    (Called("keep_retrying") /\ Self.status = "P" /\ AtOwnStep) =>
        /\ ret.res.exc = ""
        /\ PyBool(ret.res.val) = ~retriesExhausted(Self)

\* C4 as amended: keep_retrying returns True exactly when numTries is defined
\* and non-zero and attemptCount < numTries (an unset attemptCount is below
\* every number), and otherwise returns None; it is the complement of
\* retriesExhausted whenever numTries is defined, except for numTries = 0
\* with an unset attemptCount; there, and when numTries is absent, both are
\* false.
C4_KeepRetrying ==
    (Called("keep_retrying") /\ Self.step # None) =>
        LET complemented == /\ Step.num_tries # None
                            /\ (Val(Step.num_tries) # 0 \/ Self.num_tries # None)
        IN  /\ ret.res.exc = ""
            /\ ret.res.val \in {PyTrue, PyNone}
            /\ PyBool(ret.res.val) =
                   (/\ Step.num_tries # None
                    /\ Val(Step.num_tries) # 0
                    /\ PyLess(Self.num_tries, Step.num_tries))
            /\ complemented => PyBool(ret.res.val) = ~retriesExhausted(Self)
            /\ ~complemented => ~PyBool(ret.res.val) /\ ~retriesExhausted(Self)

\* C4 witness: keep_retrying was called at a step that defines no numTries,
\* and at a step whose tries are used up.
C4_Witness ==
    /\ Called("keep_retrying")
    /\ Self.step # None
    /\ Step.num_tries = None
    /\ Self.num_tries = Some(0)
    /\ ret.res = Return(PyNone)

\* C5: on an in-progress record of a script that has steps, whose step is
\* null or one of the script's,
\* get_next_step returns the step of the smallest greater order, the first
\* step for a null step, and None at the last step.
C5_NextStep ==
    (Called("get_next_step") /\ Self.status = "P" /\ script # {}
        /\ (Self.step = None \/ AtOwnStep)) =>
        ret.res = Return(SuccessorStep(script, Self.step))

\* No instruction of the pass s is addressed to party p.
NoSendTo(p, s) == \A k \in 1..Len(s) : s[k].party # p

\* Party p is in progress at a step of its script that carries this rule.
AtRule(p, rule) ==
    /\ progress[p].status = "P"
    /\ progress[p].step # None
    /\ Val(progress[p].step) \in script
    /\ Val(progress[p].step).rule = rule

\* C6: at a WAIT_MOVEON step whose next step has start_offset 60, a tick
\* before time + 60 changes nothing and a tick at or after time + 60 enters
\* the next step, and only that one.
C6_WaitMoveon ==
    [][\A p \in Parties :
          LET self == progress[p]
              next == SuccessorStep(script, self.step)
          IN  (/\ Tick
               /\ AtRule(p, WAIT_MOVEON)
               /\ next # None
               /\ Val(next).start_offset = Some(60)) =>
                  IF now < self.time + 60
                  THEN progress'[p] = self /\ NoSendTo(p, sent')
                  ELSE progress'[p] = ScriptProgress(next, "P", now, Some(0))]_vars

\* C7: at a RESEND_MOVEON step with num_tries 3 and retry_offset 30, a tick at
\* or after time + 30 resends while attemptCount < 3 (attemptCount + 1, time
\* stamped, one instruction) and, with attemptCount 3, leaves the step
\* without resending.
C7_ResendMoveon ==
    [][\A p \in Parties :
          LET self == progress[p]
              step == Val(self.step)
          IN  (/\ Tick
               /\ AtRule(p, RESEND_MOVEON)
               /\ step.num_tries = Some(3)
               /\ step.retry_offset = Some(30)
               /\ self.num_tries # None
               /\ now >= self.time + 30) =>
                  IF Val(self.num_tries) < 3
                  THEN /\ progress'[p] =
                              [self EXCEPT !.num_tries = Some(Val(self.num_tries) + 1),
                                           !.time = now]
                       /\ sent' = <<[party |-> p, order |-> step.order]>>
                  ELSE /\ progress'[p].step # self.step \/ progress'[p].status = "C"
                       /\ \A k \in 1..Len(sent') :
                              sent'[k] # [party |-> p, order |-> step.order]]_vars

\* C8: at a RESEND_GIVEUP step that defines num_tries, a tick on exhausted
\* tries marks the record Complete at that step with nothing sent, and a
\* record Complete at such a step stays there: the following step is never
\* entered.
C8_ResendGiveup ==
    [][\A p \in Parties :
          LET self == progress[p]
          IN  (/\ self.step # None
               /\ Val(self.step) \in script
               /\ Val(self.step).rule = RESEND_GIVEUP
               /\ Val(self.step).num_tries # None) =>
                  /\ (Tick /\ self.status = "P" /\ retriesExhausted(self)) =>
                         /\ progress'[p].status = "C"
                         /\ progress'[p].step = self.step
                         /\ NoSendTo(p, sent')
                  /\ self.status = "C" =>
                         /\ progress'[p].status = "C"
                         /\ progress'[p].step = self.step]_vars

\* C8 witness: a tick gave up at a RESEND_GIVEUP step with num_tries 2 after
\* two resends, and the script has a following step.
C8_Witness ==
    \E p \in Parties :
        /\ ret.fn = "tick"
        /\ progress[p].status = "C"
        /\ progress[p].step # None
        /\ Val(progress[p].step).rule = RESEND_GIVEUP
        /\ Val(progress[p].step).num_tries = Some(2)
        /\ progress[p].num_tries = Some(2)
        /\ SuccessorStep(script, progress[p].step) # None

\* C9: a party at a LENIENT step keeps its record (step, status, attempt
\* count, time) and is sent nothing across every tick, lapse of time and
\* reply that is not a valid one.
C9_Lenient ==
    [][\A p \in Parties :
          (/\ AtRule(p, LENIENT)
           /\ ~(ret'.fn = "onReply" /\ ret'.party = p /\ ret'.res = Return(PyTrue))) =>
              /\ progress'[p] = progress[p]
              /\ NoSendTo(p, sent')]_vars

\* C9 witness: a tick ran on a party still in progress at a LENIENT step
\* after every offset of the step had passed.
C9_Witness ==
    \E p \in Parties :
        /\ ret.fn = "tick"
        /\ AtRule(p, LENIENT)
        /\ Val(progress[p].step).giveup_offset = Some(20)
        /\ Val(progress[p].step).num_tries = Some(3)
        /\ now > progress[p].time + 60

\* C10: no transition leaves a record with a null step or a step outside its
\* script; a record whose step or status changes while at the last step
\* becomes Complete with the step still the last one (script_completion
\* holds of it).
C10_LastStep ==
    [][\A p \in Parties :
          LET self == progress[p]
              after == progress'[p]
          IN  /\ after.step # None => Val(after.step) \in script
              /\ self.step # None => after.step # None
              /\ (/\ self.status = "P"
                  /\ self.step # None
                  /\ self.step = get_last_step(script)
                  /\ (after.step # self.step \/ after.status # self.status)) =>
                     /\ after.status = "C"
                     /\ after.step = self.step
                     /\ script_completion(script, after) = Return(PyTrue)]_vars

\* C10 witness: a tick advanced a party from the last step, a WAIT_MOVEON
\* step, and left it Complete at that step.
C10_Witness ==
    \E p \in Parties :
        /\ ret.fn = "tick"
        /\ progress[p].status = "C"
        /\ progress[p].step # None
        /\ progress[p].step = get_last_step(script)
        /\ Val(progress[p].step).rule = WAIT_MOVEON
        /\ progress[p].time = now

\* C11: a record that is Complete is left as it is by every call (tick,
\* reply of either verdict) and by the passing of time, nothing is sent to
\* its party, the call raises no fault for it, and get_next_step resolves no
\* step for it.
C11_CompleteTerminal ==
    [][\A p \in Parties :
          progress[p].status = "C" =>
              /\ progress'[p] = progress[p]
              /\ NoSendTo(p, sent')
              /\ \A f \in faults' : f.party # p
              /\ get_next_step(script, progress[p]) = Return(None)]_vars

\* C11 witness: a valid reply for its own step reached a party that had
\* given up earlier at a step that has a successor.
C11_Witness ==
    \E p \in Parties :
        /\ ret.fn = "onReply"
        /\ ret.party = p
        /\ ret.res = Return(PyTrue)
        /\ progress[p].status = "C"
        /\ progress[p].step # None
        /\ ret.arg = Some(Val(progress[p].step).order)
        /\ progress[p].time < now
        /\ SuccessorStep(script, progress[p].step) # None

\* The offset that governs party p's step is set and positive: the next
\* step's start_offset at a WAIT_MOVEON step, the giveup_offset at a
\* WAIT_GIVEUP step, the retry_offset at a RESEND step with tries left.
TimedStep(p) ==
    LET self == progress[p]
        step == Val(self.step)
        next == SuccessorStep(script, self.step)
    IN  \/ /\ AtRule(p, WAIT_MOVEON)
           /\ next # None
           /\ Truthy(Val(next).start_offset)
           /\ Val(Val(next).start_offset) > 0
        \/ /\ AtRule(p, WAIT_GIVEUP)
           /\ Truthy(step.giveup_offset)
           /\ Val(step.giveup_offset) > 0
        \/ /\ AtRule(p, RESEND_MOVEON) \/ AtRule(p, RESEND_GIVEUP)
           /\ Truthy(step.retry_offset)
           /\ Val(step.retry_offset) > 0
           /\ step.num_tries # None
           /\ self.num_tries # None
           /\ Val(self.num_tries) < Val(step.num_tries)

\* C12: a tick that follows a tick at the same clock reading, with no reply
\* in between, changes no field of the record of a party at a step with a
\* positive governing offset, and sends that party nothing.
C12_TickIdempotent ==
    [][(ret.fn = "tick" /\ Tick) =>
           \A p \in Parties :
               TimedStep(p) => progress'[p] = progress[p] /\ NoSendTo(p, sent')]_vars

\* C13: a reply verdict, valid or not, for a step other than the party's
\* current one leaves the party's record (step, status, attempt count, time)
\* as it was and sends the party nothing.
C13_StaleVerdict ==
    [][\A p \in Parties :
          (/\ ret'.fn = "onReply"
           /\ ret'.party = p
           /\ (progress[p].step = None
                 \/ ret'.arg # Some(Val(progress[p].step).order))) =>
              /\ progress'[p] = progress[p]
              /\ NoSendTo(p, sent')]_vars

\* C13 witness: a valid verdict for an earlier step reached a party that is
\* in progress at a later step, where a valid verdict for that step would
\* move it on.
C13_Witness ==
    \E p \in Parties :
        /\ ret.fn = "onReply"
        /\ ret.party = p
        /\ ret.res = Return(PyTrue)
        /\ AtRule(p, RESEND_GIVEUP)
        /\ Val(ret.arg) < Val(progress[p].step).order

\* Party p's record is in progress at a step that is not one of its script's.
Inconsistent(p) ==
    /\ progress[p].status = "P"
    /\ progress[p].step # None
    /\ Val(progress[p].step) \notin script

\* C14: a tick leaves a record whose step is not one of its script's as it
\* is, reports InconsistentState for its party and sends the party nothing;
\* every other party's record is evaluated by the same tick as if the fault
\* had not happened (a party that has just joined enters the first step and
\* is sent its message).
C14_InconsistentState ==
    [][Tick =>
          \A p \in Parties :
              Inconsistent(p) =>
                  /\ progress'[p] = progress[p]
                  /\ [party |-> p, fault |-> "InconsistentState"] \in faults'
                  /\ NoSendTo(p, sent')
                  /\ \A q \in Parties \ {p} :
                         /\ progress'[q] = Evaluate(script, progress[q], now).rec
                         /\ (/\ progress[q].status = "P"
                             /\ progress[q].step = None
                             /\ script # {}) =>
                                /\ progress'[q].step = get_initial_step(script)
                                /\ \E k \in 1..Len(sent') : sent'[k].party = q]_vars

\* C14 witness: one tick reported the first party's record, which is at a
\* foreign step, and entered the second party, which had just joined, into
\* the first step.
C14_Witness ==
    /\ ret.fn = "tick"
    /\ Parties = {Connections[1], Connections[2]}
    /\ Inconsistent(Connections[1])
    /\ faults = {[party |-> Connections[1], fault |-> "InconsistentState"]}
    /\ progress[Connections[2]].step = get_initial_step(script)
    /\ progress[Connections[2]].step # None
    /\ progress[Connections[2]].status = "P"
    /\ sent = <<[party |-> Connections[2],
                 order |-> Val(progress[Connections[2]].step).order]>>

\* C16: the first tick on a party that has just joined (in progress, no
\* step) enters the step of the smallest order with attemptCount 0 and the
\* time set to the clock, and sends that step's message; on a script without
\* steps it marks the record Complete instead, with no fault.
C16_FirstTick ==
    [][\A p \in Parties :
          (progress[p].status = "P" /\ progress[p].step = None /\ Tick) =>
              /\ \A f \in faults' : f.party # p
              /\ IF script = {}
                 THEN /\ progress'[p].status = "C"
                      /\ progress'[p].step = None
                      /\ NoSendTo(p, sent')
                 ELSE LET first == CHOOSE s \in script :
                                       \A t \in script : s.order <= t.order
                      IN  /\ progress'[p] =
                                 ScriptProgress(Some(first), "P", now, Some(0))
                          /\ \E k \in 1..Len(sent') :
                                 sent'[k] = [party |-> p, order |-> first.order]]_vars

\* C16 witness: some time after joining, a tick entered the party into the
\* first step of a script that has later steps.
C16_Witness ==
    \E p \in Parties :
        /\ ret.fn = "tick"
        /\ now > 0
        /\ progress[p] = ScriptProgress(SuccessorStep(script, None), "P", now, Some(0))
        /\ Cardinality(script) > 1
        /\ sent = <<[party |-> p, order |-> Val(progress[p].step).order]>>

\* C17: every transition that changes a party's current step (the first
\* entry, an advance on timeout, on give-up or on a valid reply) leaves
\* attemptCount at 0 and the record's time at the time of the transition.
C17_StepChangeResets ==
    [][\A p \in Parties :
          progress'[p].step # progress[p].step =>
              /\ progress'[p].num_tries = Some(0)
              /\ progress'[p].time = now']_vars

\* C17 witness: after the clock has moved, a tick or a reply has put a party
\* at a step later than the first with attemptCount 0 and the time of the
\* move.
C17_Witness ==
    \E p \in Parties :
        /\ ret.fn \in {"tick", "onReply"}
        /\ progress[p].status = "P"
        /\ progress[p].step # None
        /\ Val(progress[p].step) \in script
        /\ progress[p].step # SuccessorStep(script, None)
        /\ progress[p].num_tries = Some(0)
        /\ progress[p].time = now
        /\ now > 0

AtCountedResend(p) ==
    /\ (AtRule(p, RESEND_MOVEON) \/ AtRule(p, RESEND_GIVEUP))
    /\ Val(progress[p].step).num_tries # None

\* C19: at a RESEND_MOVEON or RESEND_GIVEUP step that defines numTries the
\* party's attemptCount is a number from 0 to numTries in every reachable
\* state, and a step that raises attemptCount or sends the party its current
\* step's message again starts from attemptCount < numTries and raises it by
\* exactly one.
C19_AttemptBound ==
    /\ [](\A p \in Parties :
             AtCountedResend(p) =>
                 /\ progress[p].num_tries # None
                 /\ 0 <= Val(progress[p].num_tries)
                 /\ Val(progress[p].num_tries) <= Val(Val(progress[p].step).num_tries))
    /\ [][\A p \in Parties :
             (/\ AtCountedResend(p)
              /\ progress'[p].step = progress[p].step
              /\ progress'[p].status = "P"
              /\ \/ progress'[p].num_tries # progress[p].num_tries
                 \/ ~NoSendTo(p, sent')) =>
                 /\ Val(progress[p].num_tries) < Val(Val(progress[p].step).num_tries)
                 /\ progress'[p].num_tries = Some(Val(progress[p].num_tries) + 1)
                 /\ sent' = <<[party |-> p, order |-> Val(progress[p].step).order]>>]_vars

\* C19 witness: a tick has just resent the message of a step with
\* numTries > 1 for the last time: attemptCount has reached numTries.
C19_Witness ==
    \E p \in Parties :
        /\ ret.fn = "tick"
        /\ AtCountedResend(p)
        /\ Val(Val(progress[p].step).num_tries) > 1
        /\ progress[p].num_tries = Val(progress[p].step).num_tries
        /\ ~NoSendTo(p, sent)

\* C20: in every step of the engine a party's current step either stays or
\* becomes the step of the next larger order (the first step for a party
\* without a step), so no step is skipped or revisited, and a Complete record
\* stays Complete.
C20_Monotone ==
    [][\A p \in Parties :
          /\ progress[p].status = "C" => progress'[p].status = "C"
          /\ progress'[p].step # progress[p].step =>
                 /\ progress'[p].step # None
                 /\ progress'[p].step = SuccessorStep(script, progress[p].step)]_vars

\* C20 witness: a tick or a reply has moved a party to the third step of a
\* script whose orders have gaps.
C20_Witness ==
    \E p \in Parties :
        LET third == SuccessorStep(script,
                         SuccessorStep(script, SuccessorStep(script, None)))
        IN  /\ ret.fn \in {"tick", "onReply"}
            /\ third # None
            /\ Val(third).order > Cardinality(script)
            /\ progress[p].step = third
            /\ progress[p].time = now
            /\ progress[p].num_tries = Some(0)
            /\ progress[p].status = "P"

====
